---------------------------- MODULE Spec2Model ----------------------------
(***************************************************************************)
(* A model of pyGeoPressure's Well aggregate (pygeopressure/basic/well.py) *)
(* and of its pressure transforms (pressure/pore_pressure.py).             *)
(*                                                                         *)
(* Numbers.  A table cell or a Log sample is <<x>> for the number x and    *)
(* <<>> for not-a-number.  The transforms compute over exact extended      *)
(* rationals <<n, d>> (d > 0, lowest terms), with <<1, 0>> for +inf,       *)
(* <<-1, 0>> for -inf and <<0, 0>> for not-a-number, following numpy's     *)
(* array arithmetic; floating-point rounding is not modelled.              *)
(*                                                                         *)
(* Units.  Depths are metres, kelly_bushing is centimetres (so that the    *)
(* 0.1 m sampling interval of get_log is 10), pressure coefficients and    *)
(* the products that are rounded to 3 decimals are ten-thousandths.        *)
(***************************************************************************)
EXTENDS Integers, Sequences, FiniteSets, TLC

VARIABLES data_frame,     \* Well.data_frame: None or the table of logs
          params,         \* Well.params: the model parameters read from JSON
          kelly_bushing,  \* Well.kelly_bushing, in centimetres
          water_depth,    \* Well.water_depth, in centimetres
          ret,            \* the last Well call: its arguments and its outcome
          nops,           \* number of add_log / drop_log calls made so far
          call            \* the last pressure-transform call: inputs and output

vars == <<data_frame, params, kelly_bushing, water_depth, ret, nops, call>>

wellVars == <<data_frame, params, kelly_bushing, water_depth, ret, nops>>

-----------------------------------------------------------------------------
(* Bounds of the model. *)

MaxOps == 1

MaxLen == 2

-----------------------------------------------------------------------------
(* Python and numpy values. *)

None == [none |-> TRUE]

NaN == <<>>

Num(x) == <<x>>

IsNum(c) == Len(c) = 1

Range(s) == {s[i] : i \in 1..Len(s)}

Min(a, b) == IF a < b THEN a ELSE b

Max(a, b) == IF a < b THEN b ELSE a

\* The order numpy sorts and searches by: not-a-number after every number.
CellLess(a, b) ==
    IF ~IsNum(a) THEN FALSE
    ELSE IF ~IsNum(b) THEN TRUE
    ELSE a[1] < b[1]

\* A call's outcome: a returned value (none when it is Python's None), or
\* the exception that escaped it; out is what the call printed.
Return(v, msg) == [exc |-> "", none |-> FALSE, val |-> v, out |-> msg]

ReturnNone(msg) == [exc |-> "", none |-> TRUE, val |-> None, out |-> msg]

Raise(e) == [exc |-> e, none |-> FALSE, val |-> None, out |-> ""]

-----------------------------------------------------------------------------
(* Column names.  A column 'Name(unit)' is a record; parens is FALSE for a *)
(* column name written without a unit, such as 'Remark'.                   *)

Col(name, unit) == [name |-> name, unit |-> unit, parens |-> TRUE]

Bare(name) == [name |-> name, unit |-> "", parens |-> FALSE]

DepthCol == Col("Depth", "m")

\* item.strip(')').split('(')[0]
ColName(c) == c.name

\* item.strip(')').split('(')[-1]: the whole string when there is no '('
ColLast(c) == IF c.parens THEN c.unit ELSE c.name

\* log.descr.replace(' ', '_')
Replace(descr) == IF descr = "Pore Pressure" THEN "Pore_Pressure" ELSE descr

\* Index of the first occurrence of x in s, 0 when absent.
IndexOf(s, x) ==
    LET I == {i \in 1..Len(s) : s[i] = x}
    IN  IF I = {} THEN 0 ELSE CHOOSE i \in I : \A j \in I : i <= j

\* Well.unit_dict: log name -> unit.  A dict comprehension: of two columns
\* with one name the later wins; a unit equal to the name reads as ''.
unit_dict(df) ==
    LET names == {ColName(df.cols[i]) : i \in 1..Len(df.cols)}
        last(n) == df.cols[CHOOSE i \in 1..Len(df.cols) :
                       /\ ColName(df.cols[i]) = n
                       /\ \A j \in 1..Len(df.cols) :
                              ColName(df.cols[j]) = n => j <= i]
    IN  [n \in names |-> IF ColLast(last(n)) = n THEN "" ELSE ColLast(last(n))]

\* The values of column c of the table, top to bottom.
Column(df, c) ==
    LET k == IndexOf(df.cols, c)
    IN  [i \in 1..Len(df.rows) |-> df.rows[i][k]]

HasCol(df, c) == IndexOf(df.cols, c) # 0


-----------------------------------------------------------------------------
(* Log: a named, unit-tagged pair of depth and data arrays. *)

MkLog(descr, units, depth, data) ==
    [descr |-> descr, units |-> units, depth |-> depth, data |-> data]

\* Log(): the freshly constructed, empty Log.
EmptyLog == MkLog("", "", <<>>, <<>>)

-----------------------------------------------------------------------------
(* Well.get_log *)

\* shift_data = np.full_like(data, nan); shift_data[:-shift] = data[shift:]
\* The target slice [:-shift] is empty when shift is 0 (it reads [:0]) and
\* holds max(N - shift, 0) samples otherwise; numpy accepts the assignment
\* when the source has the target's length or has length 1 (broadcast).
ShiftData(data, shift) ==
    LET N   == Len(data)
        tgt == IF shift = 0 THEN 0 ELSE Max(N - shift, 0)
        src == SubSeq(data, shift + 1, N)
    IN  IF Len(src) # tgt /\ Len(src) # 1
        THEN Raise("ValueError")
        ELSE Return([i \in 1..N |->
                        IF i <= tgt
                        THEN (IF Len(src) = 1 THEN src[1] ELSE src[i])
                        ELSE NaN], "")

\* get_log(name, ref) for one log name.
get_log(df, name, ref, kb) ==
    IF df = None THEN Raise("AttributeError")
    ELSE IF name \notin DOMAIN unit_dict(df) THEN Raise("KeyError")
    ELSE IF ~HasCol(df, DepthCol) THEN Raise("KeyError")
    ELSE IF ~HasCol(df, Col(name, unit_dict(df)[name])) THEN Raise("KeyError")
    ELSE LET units == unit_dict(df)[name]
             depth == Column(df, DepthCol)
             data  == Column(df, Col(name, units))
             sh    == ShiftData(data, kb \div 10)
         IN  IF ref # "sea" THEN Return(MkLog(name, units, depth, data), "")
             ELSE IF sh.exc # "" THEN sh
             ELSE Return(MkLog(name, units, depth, sh.val), "")

-----------------------------------------------------------------------------
(* Well.add_log: pandas.merge(self.data_frame, temp_dataframe, how='outer') *)

\* pd.DataFrame(data={'Depth(m)': log.depth, 'descr(units)': log.data}):
\* a dict, so a log named 'Depth' with units 'm' leaves the one key
\* 'Depth(m)' holding log.data.
temp_dataframe(log) ==
    LET c == Col(Replace(log.descr), log.units)
    IN  IF c = DepthCol
        THEN Return([cols |-> <<DepthCol>>,
                     rows |-> [i \in 1..Len(log.data) |-> <<log.data[i]>>]], "")
        ELSE IF Len(log.depth) # Len(log.data) THEN Raise("ValueError")
        ELSE Return([cols |-> <<DepthCol, c>>,
                     rows |-> [i \in 1..Len(log.depth) |->
                                  <<log.depth[i], log.data[i]>>]], "")

RECURSIVE Flatten(_)
Flatten(ss) == IF ss = <<>> THEN <<>> ELSE Head(ss) \o Flatten(Tail(ss))

\* Lexicographic order of two key tuples, not-a-number last.
KeyLess(k1, k2) ==
    \E i \in 1..Len(k1) :
        /\ \A j \in 1..(i - 1) : k1[j] = k2[j]
        /\ CellLess(k1[i], k2[i])

\* The cells of a row at the column positions kidx: its join key.
RowKey(row, kidx) == [k \in 1..Len(kidx) |-> row[kidx[k]]]

\* Stable insertion of a row into rows already sorted by key.
RECURSIVE InsertRow(_, _, _)
InsertRow(sorted, row, kidx) ==
    IF sorted = <<>> THEN <<row>>
    ELSE IF KeyLess(RowKey(row, kidx), RowKey(Head(sorted), kidx))
         THEN <<row>> \o sorted
         ELSE <<Head(sorted)>> \o InsertRow(Tail(sorted), row, kidx)

RECURSIVE SortRows(_, _)
SortRows(rows, kidx) ==
    IF rows = <<>> THEN <<>>
    ELSE InsertRow(SortRows(SubSeq(rows, 1, Len(rows) - 1), kidx),
                   rows[Len(rows)], kidx)

\* pd.merge(left, right, how='outer') with no 'on': the join keys are all the
\* columns the two frames share; the result holds left's columns, then
\* right's other columns, one row per matching pair and one per unmatched
\* row of either side (missing cells not-a-number), sorted by the keys.
merge(left, right) ==
    IF left = None THEN Raise("TypeError")
    ELSE
    LET InSeq(s, x) == IndexOf(s, x) # 0
        common      == SelectSeq(left.cols, LAMBDA c : InSeq(right.cols, c))
        rightOnly   == SelectSeq(right.cols, LAMBDA c : ~InSeq(left.cols, c))
        cols        == left.cols \o rightOnly
        lkey(l)     == [k \in 1..Len(common) |-> l[IndexOf(left.cols, common[k])]]
        rkey(r)     == [k \in 1..Len(common) |-> r[IndexOf(right.cols, common[k])]]
        rrest(r)    == [k \in 1..Len(rightOnly) |->
                           r[IndexOf(right.cols, rightOnly[k])]]
        nans(n)     == [k \in 1..n |-> NaN]
        matches(l)  == SelectSeq(right.rows, LAMBDA r : rkey(r) = lkey(l))
        leftPart    == Flatten([i \in 1..Len(left.rows) |->
                          LET l == left.rows[i]
                              m == matches(l)
                          IN  IF m = <<>> THEN << l \o nans(Len(rightOnly)) >>
                              ELSE [j \in 1..Len(m) |-> l \o rrest(m[j])]])
        unmatched   == SelectSeq(right.rows, LAMBDA r :
                          \A i \in 1..Len(left.rows) : lkey(left.rows[i]) # rkey(r))
        rightPart   == [j \in 1..Len(unmatched) |->
                          [k \in 1..Len(left.cols) |->
                              IF InSeq(right.cols, left.cols[k])
                              THEN unmatched[j][IndexOf(right.cols, left.cols[k])]
                              ELSE NaN] \o rrest(unmatched[j])]
        kidx        == [k \in 1..Len(common) |-> IndexOf(cols, common[k])]
    IN  IF common = <<>> THEN Raise("MergeError")
        ELSE Return([cols |-> cols,
                     rows |-> SortRows(leftPart \o rightPart, kidx)], "")

\* add_log that attaches the Log's own frame to a Well without a table,
\* as a guard such as "if self.data_frame is None" would.
add_log_attach(df, log) ==
    LET t == temp_dataframe(log)
    IN  IF t.exc # "" THEN t
        ELSE IF df = None THEN t
        ELSE merge(df, t.val)

\* add_log([log]): the new data_frame, or the exception that escapes (the
\* table is then left as it was).
add_log(df, log) ==
    LET t == temp_dataframe(log)
    IN  IF t.exc # "" THEN t ELSE merge(df, t.val)

-----------------------------------------------------------------------------
(* Well.drop_log *)

\* del self.data_frame[column_name]
DelColumn(df, c) ==
    LET k    == IndexOf(df.cols, c)
        cut(s) == SubSeq(s, 1, k - 1) \o SubSeq(s, k + 1, Len(s))
    IN  [cols |-> cut(df.cols),
         rows |-> [i \in 1..Len(df.rows) |-> cut(df.rows[i])]]

drop_log(df, log_name) ==
    IF df = None THEN Raise("AttributeError")
    ELSE IF log_name \in DOMAIN unit_dict(df)
    THEN LET c == Col(log_name, unit_dict(df)[log_name])
         IN  IF HasCol(df, c) THEN Return(DelColumn(df, c), "")
             ELSE Raise("KeyError")
    ELSE Return(df, "no log named")

-----------------------------------------------------------------------------
(* Extended rational arithmetic: numpy's float64 array arithmetic, exact.  *)

RNaN == <<0, 0>>

RInf == <<1, 0>>

RNInf == <<-1, 0>>

Abs(x) == IF x < 0 THEN -x ELSE x

Sign(x) == IF x < 0 THEN -1 ELSE IF x > 0 THEN 1 ELSE 0

RECURSIVE Gcd(_, _)
Gcd(a, b) == IF b = 0 THEN a ELSE Gcd(b, a % b)

\* n / d in lowest terms, d # 0.
Rat(n, d) ==
    LET g == Gcd(Abs(n), Abs(d))
    IN  << Sign(d) * (n \div g), Abs(d) \div g >>

R(x) == <<x, 1>>

IsNaN(x) == x = RNaN

IsFinite(x) == x[2] # 0

IsZero(x) == x[1] = 0 /\ x[2] # 0

RSign(x) == Sign(x[1])

RLess(x, y) == x[1] * y[2] < y[1] * x[2]

RNeg(x) == << -x[1], x[2] >>

RAdd(x, y) ==
    IF IsNaN(x) \/ IsNaN(y) THEN RNaN
    ELSE IF ~IsFinite(x) /\ ~IsFinite(y) THEN (IF x = y THEN x ELSE RNaN)
    ELSE IF ~IsFinite(x) THEN x
    ELSE IF ~IsFinite(y) THEN y
    ELSE Rat(x[1] * y[2] + y[1] * x[2], x[2] * y[2])

RSub(x, y) == RAdd(x, RNeg(y))

RMul(x, y) ==
    IF IsNaN(x) \/ IsNaN(y) THEN RNaN
    ELSE IF ~IsFinite(x) \/ ~IsFinite(y)
         THEN (IF IsZero(x) \/ IsZero(y) THEN RNaN
               ELSE << RSign(x) * RSign(y), 0 >>)
    ELSE Rat(x[1] * y[1], x[2] * y[2])

\* x / y on arrays: a zero divisor gives inf or nan, never an exception.
RDiv(x, y) ==
    IF IsNaN(x) \/ IsNaN(y) THEN RNaN
    ELSE IF IsZero(y) THEN (IF IsZero(x) THEN RNaN ELSE << RSign(x), 0 >>)
    ELSE IF ~IsFinite(y) THEN (IF ~IsFinite(x) THEN RNaN ELSE R(0))
    ELSE IF ~IsFinite(x) THEN << RSign(x) * RSign(y), 0 >>
    ELSE Rat(x[1] * y[2], x[2] * y[1])

\* x ** n for a whole exponent n; x ** 0 is 1 for every x, nan included.
RECURSIVE RPowInt(_, _)
RPowInt(x, n) ==
    IF n = 0 THEN R(1)
    ELSE IF n < 0 THEN RDiv(R(1), RPowInt(x, -n))
    ELSE RMul(x, RPowInt(x, n - 1))

RECURSIVE IPow(_, _)
IPow(r, k) == IF k = 0 THEN 1 ELSE r * IPow(r, k - 1)

\* The whole k-th root of a perfect k-th power n >= 0.
IntRoot(n, k) == CHOOSE r \in 0..n : IPow(r, k) = n

\* x ** (1 / b) for a whole b # 0.  1 / b is a float: for b = 1 or -1 the
\* exponent is whole; otherwise a negative base gives nan, and a base that
\* is a perfect power gives its non-negative root.
Root(x, b) ==
    IF b = 1 THEN x
    ELSE IF b = -1 THEN RPowInt(x, -1)
    ELSE IF IsNaN(x) THEN RNaN
    ELSE IF ~IsFinite(x) THEN (IF b > 0 THEN RInf ELSE R(0))
    ELSE IF RSign(x) < 0 THEN RNaN
    ELSE LET r == << IntRoot(x[1], Abs(b)), IntRoot(x[2], Abs(b)) >>
         IN  IF b > 0 THEN r ELSE RDiv(R(1), r)

-----------------------------------------------------------------------------
(* pore_pressure.py *)

V0 == 1524

\* The slice [k:] of an array of N samples starts at this 0-based index.
SliceStart(k, N) == IF k < 0 THEN Max(N + k, 0) ELSE Min(k, N)

\* ((v - 1524) / a) ** (1.0 / b): the loading (virgin-curve) effective stress.
VesOf(v, a, b) == Root(RDiv(RSub(v, R(V0)), a), b)

\* sigma_max * (((v - 1524) / a) ** (1 / b) / sigma_max) ** u
VesUnloadOf(v, u, a, b, vmax) ==
    LET sigma_max == VesOf(vmax, a, b)
    IN  RMul(sigma_max, RPowInt(RDiv(VesOf(v, a, b), sigma_max), u))

\* ves[fe_idx:] = ves_fe[fe_idx:] with fe_idx and ves, ves_fe swapped roles:
\* the slice assignment as a slip would write it (ves[:fe_idx] = ...).
SpliceHead(ves, ves_fe, fe_idx) ==
    LET s == SliceStart(fe_idx, Len(ves))
    IN  SubSeq(ves_fe, 1, s) \o SubSeq(ves, s + 1, Len(ves))

\* ves[fe_idx:] = ves_fe[fe_idx:]
Splice(ves, ves_fe, fe_idx) ==
    LET s == SliceStart(fe_idx, Len(ves))
    IN  SubSeq(ves, 1, s) \o SubSeq(ves_fe, s + 1, Len(ves))

\* bowers(v, obp, u, fe_idx, a, b, vmax): the returned array, and the
\* argument arrays as the call leaves them (it writes only into ves, an
\* array of its own).
bowers(v, obp, u, fe_idx, a, b, vmax) ==
    LET ves    == [i \in 1..Len(v) |-> VesOf(v[i], a, b)]
        ves_fe == [i \in 1..Len(v) |-> VesUnloadOf(v[i], u, a, b, vmax)]
        final  == Splice(ves, ves_fe, fe_idx)
    IN  [out |-> [i \in 1..Len(v) |-> RSub(obp[i], final[i])],
         v   |-> v,
         obp |-> obp]

\* virgin_curve(sigma, a, b) for a whole exponent b
virgin_curve(sigma, a, b) == RAdd(R(V0), RMul(a, RPowInt(sigma, b)))

\* eaton with (v / vn) * n in place of (v / vn) ** n
eaton_times(v, vn, hydrostatic, lithostatic, n) ==
    [i \in 1..Len(v) |->
        RSub(lithostatic[i],
             RMul(RSub(lithostatic[i], hydrostatic[i]),
                  RMul(RDiv(v[i], vn[i]), R(n))))]

\* eaton(v, vn, hydrostatic, lithostatic, n) for a whole exponent n
eaton(v, vn, hydrostatic, lithostatic, n) ==
    [i \in 1..Len(v) |->
        RSub(lithostatic[i],
             RMul(RSub(lithostatic[i], hydrostatic[i]),
                  RPowInt(RDiv(v[i], vn[i]), n)))]

\* multivariate_virgin(sigma, phi, vsh, a_0, a_1, a_2, a_3, B), whole B
multivariate_virgin(sigma, phi, vsh, a_0, a_1, a_2, a_3, B) ==
    [i \in 1..Len(sigma) |->
        RAdd(RSub(RSub(a_0, RMul(a_1, phi[i])), RMul(a_2, vsh[i])),
             RMul(a_3, RPowInt(sigma[i], B)))]

\* invert_multivariate_virgin with the exponent B in place of 1 / B
invert_pow(vel, phi, vsh, a_0, a_1, a_2, a_3, B) ==
    [i \in 1..Len(vel) |->
        RPowInt(RDiv(RAdd(RAdd(RSub(vel[i], a_0), RMul(a_1, phi[i])),
                          RMul(a_2, vsh[i])), a_3), B)]

\* invert_multivariate_virgin(vel, phi, vsh, a_0, a_1, a_2, a_3, B), whole B
invert_multivariate_virgin(vel, phi, vsh, a_0, a_1, a_2, a_3, B) ==
    [i \in 1..Len(vel) |->
        Root(RDiv(RAdd(RAdd(RSub(vel[i], a_0), RMul(a_1, phi[i])),
                       RMul(a_2, vsh[i])), a_3), B)]

-----------------------------------------------------------------------------
(* The leaves Well imports: pressure/hydrostatic.py, velocity/extrapolate.py *)

\* hydrostatic_pressure(depth, kelly_bushing, depth_w): the pressure of the
\* water column at each depth, in centimetres of water: the column below
\* the sea bed, depth - depth_w - kelly_bushing, plus the sea water depth_w.
hydrostatic_pressure(depth, kb, wd) ==
    [i \in 1..Len(depth) |->
        IF IsNum(depth[i]) THEN Num((depth[i][1] - wd - kb) + wd) ELSE NaN]

\* normal(x, a, b): the two-parameter compaction trend at each depth.
normal(x, a, b) ==
    [i \in 1..Len(x) |-> IF IsNum(x[i]) THEN Num(a + b * x[i][1]) ELSE NaN]

-----------------------------------------------------------------------------
(* Well: derived properties *)

OBP == "Overburden_Pressure"

NoLogMsg == "No 'Overburden_Pressure' log found."

hydrostatic(df, kb, wd) ==
    LET g == get_log(df, OBP, "", kb)
    IN  IF g.exc = "KeyError" THEN ReturnNone(NoLogMsg)
        ELSE IF g.exc # "" THEN g
        ELSE Return(hydrostatic_pressure(g.val.depth, kb, wd), "")

lithostatic(df, kb) ==
    LET g == get_log(df, OBP, "", kb)
    IN  IF g.exc = "KeyError" THEN ReturnNone(NoLogMsg)
        ELSE IF g.exc # "" THEN g
        ELSE Return(g.val.data, "")

\* self.params['nct']['a'] and ['b'] are read first, inside the try.
normal_velocity(df, ps, kb) ==
    IF "nct" \notin DOMAIN ps THEN ReturnNone(NoLogMsg)
    ELSE IF {"a", "b"} \ DOMAIN ps["nct"] # {} THEN ReturnNone(NoLogMsg)
    ELSE LET g == get_log(df, OBP, "", kb)
         IN  IF g.exc = "KeyError" THEN ReturnNone(NoLogMsg)
             ELSE IF g.exc # "" THEN g
             ELSE Return(normal(g.val.depth, ps["nct"]["a"], ps["nct"]["b"]), "")

-----------------------------------------------------------------------------
(* Well._get_pressure and its wrappers *)

\* np.searchsorted(a, key): the binary search for the leftmost insertion
\* index (0-based) between lo and hi.
RECURSIVE BinarySearch(_, _, _, _)
BinarySearch(a, key, lo, hi) ==
    IF lo >= hi THEN lo
    ELSE LET mid == lo + ((hi - lo) \div 2)
         IN  IF CellLess(a[mid + 1], key)
             THEN BinarySearch(a, key, mid + 1, hi)
             ELSE BinarySearch(a, key, lo, mid)

searchsorted(a, key) == BinarySearch(a, Num(key), 0, Len(a))

\* np.round(x, 3) of a number held in ten-thousandths: to the nearest
\* multiple of 10, a tie to the even one.
Round3(x) ==
    LET q == x \div 10
        r == x % 10
    IN  IF r < 5 THEN 10 * q
        ELSE IF r > 5 THEN 10 * (q + 1)
        ELSE IF q % 2 = 0 THEN 10 * q ELSE 10 * (q + 1)

RoundCell(c) == IF IsNum(c) THEN Num(Round3(c[1])) ELSE NaN

\* hydro[idx] * co, in ten-thousandths
TimesCoef(c, co) == IF IsNum(c) THEN Num(c[1] * co) ELSE NaN

\* zip(depth, coef)
Zip(depth, coef) ==
    [i \in 1..Min(Len(depth), Len(coef)) |-> <<depth[i], coef[i]>>]

_get_pressure(df, ps, pres_key, ref, hydrodynamic, kb, wd) ==
    LET g == get_log(df, OBP, "", kb)
    IN  IF g.exc # "" THEN g
        ELSE IF pres_key \notin DOMAIN ps THEN Raise("KeyError")
        ELSE IF "depth" \notin DOMAIN ps[pres_key] THEN Raise("KeyError")
        ELSE IF "coef" \notin DOMAIN ps[pres_key]
             THEN Return(EmptyLog, "Cannot find")
        ELSE
        LET hydro     == hydrostatic_pressure(g.val.depth, kb, wd)
            obp_depth == g.val.depth
            pairs     == SelectSeq(Zip(ps[pres_key]["depth"], ps[pres_key]["coef"]),
                                   LAMBDA p : p[1] > hydrodynamic)
            idx(p)    == searchsorted(obp_depth, p[1])
            pres_data  == [i \in 1..Len(pairs) |->
                              TimesCoef(hydro[idx(pairs[i]) + 1], pairs[i][2])]
            pres_depth == [i \in 1..Len(pairs) |-> Num(pairs[i][1])]
        IN  IF \E i \in 1..Len(pairs) : idx(pairs[i]) >= Len(hydro)
            THEN Raise("IndexError")
            ELSE Return(
                MkLog("", "",
                      IF ref = "sea"
                      THEN [i \in 1..Len(pairs) |-> Num(pairs[i][1] - kb)]
                      ELSE pres_depth,
                      [i \in 1..Len(pairs) |-> RoundCell(pres_data[i])]), "")

\* The public wrappers and the parameter set each one reads.
Wrappers ==
    [get_pressure_measured  |-> "Measured_Pressure",
     get_emw                |-> "EMW",
     get_dst                |-> "DST",
     get_wft                |-> "MDT",
     get_loading_pressure   |-> "loading",
     get_unloading_pressure |-> "unloading"]

PresKeys == {Wrappers[w] : w \in DOMAIN Wrappers}

-----------------------------------------------------------------------------
(* Well.eaton *)

ToR(c) == IF IsNum(c) THEN R(c[1]) ELSE RNaN

ToRs(cs) == [i \in 1..Len(cs) |-> ToR(cs[i])]

well_eaton(df, ps, velocity, n, kb, wd) ==
    LET g  == get_log(df, OBP, "", kb)
        vn == normal_velocity(df, ps, kb)
    IN  IF g.exc # "" THEN g
        ELSE IF vn.none THEN Raise("TypeError")
        ELSE Return(
            MkLog("Pressure_Eaton", g.val.units, g.val.depth,
                  eaton(ToRs(velocity), ToRs(vn.val),
                        ToRs(hydrostatic(df, kb, wd).val),
                        ToRs(lithostatic(df, kb).val), n)), "")

-----------------------------------------------------------------------------
(* The wells the model starts from.  Depths are centimetres. *)

ObpCol == Col(OBP, "MPa")

VelCol == Col("Velocity", "m/s")

\* Tables as the storage read leaves them: a 'Depth(m)' axis in increasing
\* order and the well's logs.
InitFrames ==
    { [cols |-> <<DepthCol, ObpCol>>,
       rows |-> << <<Num(10000), Num(2)>>, <<Num(20000), Num(4)>>,
                   <<Num(30000), Num(6)>> >>],
      [cols |-> <<DepthCol, VelCol>>,
       rows |-> << <<Num(10000), Num(1600)>>, <<Num(20000), Num(1700)>>,
                   <<Num(30000), NaN>> >>],
      [cols |-> <<DepthCol, ObpCol, VelCol, Bare("Remark")>>,
       rows |-> << <<Num(10000), Num(2), Num(1600), Num(0)>> >>] }

\* Model parameters: {depth, coef} sets per pressure source, some of them
\* incomplete or absent, and the trend coefficients 'nct'.
InitParams ==
    { [Measured_Pressure |-> [depth |-> <<5000, 25000, 10000>>,
                              coef  |-> <<10004, 9005, 12345>>],
       DST       |-> [depth |-> <<10000, 35000>>, coef |-> <<10000, 11000>>],
       MDT       |-> [depth |-> <<25000>>, coef |-> <<9000>>],
       loading   |-> [depth |-> <<25000>>],
       unloading |-> [coef |-> <<9000>>],
       nct       |-> [a |-> 1600, b |-> 0]],
      [EMW |-> [depth |-> <<10000, 20000>>, coef |-> <<9000>>],
       MDT |-> [depth |-> <<5000, 25000, 10000>>,
                coef  |-> <<10004, 9005, 12345>>]] }

KellyBushings == {5, 10, 30}

Refs == {"", "sea"}

\* The (ref, hydrodynamic) arguments _get_pressure is called with.
PressureArgs == { <<"", 0>>, <<"sea", 0>>, <<"", 10000>> }

LogNames == {"Depth", OBP, "Velocity", "Remark"}

DropNames == {"Depth", OBP, "Remark", "Pore_Pressure"}

\* The Logs handed to add_log.
Logs ==
    { MkLog("Velocity", "m/s", <<Num(10000), Num(20000)>>, <<Num(1), Num(2)>>),
      MkLog("Pore Pressure", "MPa", <<Num(20000), Num(40000)>>,
            <<Num(5), NaN>>),
      MkLog(OBP, "MPa", <<Num(10000), Num(30000)>>, <<Num(2), Num(9)>>),
      MkLog("Depth", "m", <<Num(10000)>>, <<Num(50000)>>) }

NoCall == [fn |-> "none"]

NoRet == [op |-> "init"]

\* Well.__init__: _parse_json, then _read_hdf, which attaches the table or,
\* when the read fails, prints the error and leaves data_frame None.
Init ==
    /\ data_frame \in InitFrames \cup {None}
    /\ params \in InitParams
    /\ kelly_bushing \in KellyBushings
    /\ water_depth = 0
    /\ ret = NoRet
    /\ nops = 0
    /\ call = NoCall

Called(op, args, res) ==
    [op |-> op, args |-> args, before |-> data_frame, res |-> res]

Reads == UNCHANGED <<data_frame, params, kelly_bushing, water_depth, nops, call>>

GetLog ==
    \E name \in LogNames, ref \in Refs :
        /\ ret' = Called("get_log", [name |-> name, ref |-> ref],
                         get_log(data_frame, name, ref, kelly_bushing))
        /\ Reads

AddLog ==
    \E log \in Logs :
        LET res == add_log(data_frame, log)
        IN  /\ nops < MaxOps
            /\ nops' = nops + 1
            /\ data_frame' = IF res.exc = "" THEN res.val ELSE data_frame
            /\ ret' = Called("add_log", [log |-> log],
                             [exc |-> res.exc, out |-> res.out])
            /\ UNCHANGED <<params, kelly_bushing, water_depth, call>>

DropLog ==
    \E name \in DropNames :
        LET res == drop_log(data_frame, name)
        IN  /\ nops < MaxOps
            /\ nops' = nops + 1
            /\ data_frame' = IF res.exc = "" THEN res.val ELSE data_frame
            /\ ret' = Called("drop_log", [name |-> name],
                             [exc |-> res.exc, out |-> res.out])
            /\ UNCHANGED <<params, kelly_bushing, water_depth, call>>

\* save_well writes the table to the HDF store, which is outside the Well;
\* whatever the store raises is caught and printed.
SaveWell ==
    /\ ret' = Called("save_well", <<>>, ReturnNone(""))
    /\ Reads

ReadHydrostatic ==
    /\ ret' = Called("hydrostatic", <<>>,
                     hydrostatic(data_frame, kelly_bushing, water_depth))
    /\ Reads

ReadLithostatic ==
    /\ ret' = Called("lithostatic", <<>>, lithostatic(data_frame, kelly_bushing))
    /\ Reads

ReadNormalVelocity ==
    /\ ret' = Called("normal_velocity", <<>>,
                     normal_velocity(data_frame, params, kelly_bushing))
    /\ Reads

GetPressure ==
    \E key \in PresKeys, a \in PressureArgs :
        /\ ret' = Called("_get_pressure",
                         [key |-> key, ref |-> a[1], hydrodynamic |-> a[2]],
                         _get_pressure(data_frame, params, key, a[1], a[2],
                                       kelly_bushing, water_depth))
        /\ Reads

\* get_pressure_measured, get_emw, get_dst, get_wft, get_loading_pressure,
\* get_unloading_pressure; only get_wft passes hydrodynamic on.
Wrapper ==
    \E w \in DOMAIN Wrappers, a \in PressureArgs :
        /\ w # "get_wft" => a[2] = 0
        /\ ret' = Called(w, [key |-> Wrappers[w], ref |-> a[1],
                             hydrodynamic |-> a[2]],
                         _get_pressure(data_frame, params, Wrappers[w], a[1],
                                       a[2], kelly_bushing, water_depth))
        /\ Reads

\* well.eaton(velocity, n) with the data of one of the well's own logs.
WellEaton ==
    \E name \in {"Velocity", OBP}, n \in {1, 2} :
        LET v == get_log(data_frame, name, "", kelly_bushing)
        IN  /\ v.exc = "" \/ get_log(data_frame, OBP, "", kelly_bushing).exc # ""
            /\ ret' = Called("eaton", [velocity |-> name, n |-> n],
                             well_eaton(data_frame, params,
                                        IF v.exc = "" THEN v.val.data ELSE <<>>,
                                        n, kelly_bushing, water_depth))
            /\ Reads

Next ==
    \/ GetLog
    \/ AddLog
    \/ DropLog
    \/ SaveWell
    \/ ReadHydrostatic
    \/ ReadLithostatic
    \/ ReadNormalVelocity
    \/ GetPressure
    \/ Wrapper
    \/ WellEaton

Spec == Init /\ [][Next]_vars

-----------------------------------------------------------------------------
(* The pressure transforms, called on arrays drawn from bounded sets.      *)

\* All arrays of at most MaxLen samples.
Arrays(Samples) == UNION { [1..k -> Samples] : k \in 0..MaxLen }

Field(arr, f) == [i \in 1..Len(arr) |-> arr[i][f]]

\* The Well these specifications leave aside: never loaded, never called.
NoWell ==
    /\ data_frame = None
    /\ params = <<>>
    /\ kelly_bushing = 0
    /\ water_depth = 0
    /\ ret = NoRet
    /\ nops = 0

EatonSamples ==
    [v : {R(1500), R(3000)}, vn : {R(1500), R(3000), R(0)},
     hydrostatic : {R(10), R(20)}, lithostatic : {R(20), R(25)}]

EatonExponents == {-1, 0, 1, 2, 3}

InitEaton ==
    /\ NoWell
    /\ \E arr \in Arrays(EatonSamples), n \in EatonExponents :
           call = [fn |-> "eaton", stage |-> "args",
                   v |-> Field(arr, "v"), vn |-> Field(arr, "vn"),
                   hydrostatic |-> Field(arr, "hydrostatic"),
                   lithostatic |-> Field(arr, "lithostatic"),
                   n |-> n, out |-> <<>>]

CallEaton ==
    /\ call.stage = "args"
    /\ call' = [call EXCEPT !.stage = "done",
                            !.out = eaton(call.v, call.vn, call.hydrostatic,
                                          call.lithostatic, call.n)]
    /\ UNCHANGED wellVars

SpecEaton == InitEaton /\ [][CallEaton]_vars

\* Velocities around v0 = 1524 whose (v - 1524) / a is a perfect b-th power.
BowersSamples == [v : {R(1520), R(1524), R(1525), R(1528)}, obp : {R(10), R(20)}]

BowersA == {R(1), R(4)}

BowersB == {1, 2}

BowersU == {1, 2, 3}

BowersVmax == {R(1520), R(1524), R(1528)}

InitBowers ==
    /\ NoWell
    /\ \E arr \in Arrays(BowersSamples), u \in BowersU, a \in BowersA,
          b \in BowersB, vmax \in BowersVmax, fe_idx \in 0..(MaxLen + 1) :
           call = [fn |-> "bowers", stage |-> "args",
                   v |-> Field(arr, "v"), obp |-> Field(arr, "obp"),
                   u |-> u, fe_idx |-> fe_idx, a |-> a, b |-> b, vmax |-> vmax,
                   out |-> <<>>, v_after |-> <<>>, obp_after |-> <<>>]

CallBowers ==
    /\ call.stage = "args"
    /\ LET r == bowers(call.v, call.obp, call.u, call.fe_idx, call.a, call.b,
                       call.vmax)
       IN  call' = [call EXCEPT !.stage = "done", !.out = r.out,
                                !.v_after = r.v, !.obp_after = r.obp]
    /\ UNCHANGED wellVars

SpecBowers == InitBowers /\ [][CallBowers]_vars

MultivariateSamples ==
    [sigma : {R(-2), R(-1), R(0), R(1), R(2), <<1, 2>>},
     aux : { [phi |-> R(0), vsh |-> R(0)], [phi |-> <<1, 4>>, vsh |-> <<1, 2>>] }]

MultivariateCoefs ==
    [a_0 : {R(1500)}, a_1 : {R(3)}, a_2 : {R(0), R(2)},
     a_3 : {R(-2), R(1), R(2)}, B : {-2, -1, 1, 2, 3}]

InitMultivariate ==
    /\ NoWell
    /\ \E arr \in Arrays(MultivariateSamples), c \in MultivariateCoefs :
           call = [fn |-> "multivariate", stage |-> "args",
                   sigma |-> Field(arr, "sigma"),
                   phi |-> [i \in 1..Len(arr) |-> arr[i].aux.phi],
                   vsh |-> [i \in 1..Len(arr) |-> arr[i].aux.vsh],
                   c |-> c, vel |-> <<>>, out |-> <<>>]

CallMultivariateVirgin ==
    /\ call.stage = "args"
    /\ call' = [call EXCEPT !.stage = "forward",
                   !.vel = multivariate_virgin(call.sigma, call.phi, call.vsh,
                               call.c.a_0, call.c.a_1, call.c.a_2, call.c.a_3,
                               call.c.B)]
    /\ UNCHANGED wellVars

CallInvertMultivariateVirgin ==
    /\ call.stage = "forward"
    /\ call' = [call EXCEPT !.stage = "done",
                   !.out = invert_multivariate_virgin(call.vel, call.phi,
                               call.vsh, call.c.a_0, call.c.a_1, call.c.a_2,
                               call.c.a_3, call.c.B)]
    /\ UNCHANGED wellVars

NextMultivariate == CallMultivariateVirgin \/ CallInvertMultivariateVirgin

SpecMultivariate == InitMultivariate /\ [][NextMultivariate]_vars

-----------------------------------------------------------------------------
(* Properties of the pressure transforms. *)

EatonDone == call.fn = "eaton" /\ call.stage = "done"

\* v == vn at every index, vn nowhere 0
NormallyCompacted ==
    \A i \in 1..Len(call.v) : call.v[i] = call.vn[i] /\ ~IsZero(call.vn[i])

\* C1 as stated: when v == vn at every index (vn # 0), eaton returns an
\* array equal to lithostatic at every index, for every exponent n.
C1_EatonReturnsLithostatic ==
    (EatonDone /\ NormallyCompacted) =>
        /\ Len(call.out) = Len(call.lithostatic)
        /\ \A i \in 1..Len(call.out) : call.out[i] = call.lithostatic[i]

\* C1 amended: when v == vn at every index (vn # 0), eaton returns an array
\* equal to hydrostatic at every index, for every exponent n: the effective
\* stress is then lithostatic - hydrostatic, and the pressure what is left.
C1_EatonReturnsHydrostatic ==
    (EatonDone /\ NormallyCompacted) =>
        /\ Len(call.out) = Len(call.hydrostatic)
        /\ \A i \in 1..Len(call.out) : call.out[i] = call.hydrostatic[i]

\* C1 witness: eaton has run on two normally compacted samples whose
\* hydrostatic and lithostatic pressures differ, with the exponent 3.
C1_Witness ==
    /\ EatonDone
    /\ NormallyCompacted
    /\ Len(call.v) = 2
    /\ call.n = 3
    /\ \A i \in 1..2 : call.hydrostatic[i] # call.lithostatic[i]

MultivariateDone == call.fn = "multivariate" /\ call.stage = "done"

\* C7 as stated: for all sigma, negative sigma included, and all coefficients
\* with a3 # 0 and B # 0, inverting the forward relation returns sigma at
\* every index.
C7_RoundTripEverySigma ==
    (MultivariateDone /\ ~IsZero(call.c.a_3) /\ call.c.B # 0) =>
        /\ Len(call.out) = Len(call.sigma)
        /\ \A i \in 1..Len(call.out) : call.out[i] = call.sigma[i]

\* C7 amended: with a3 # 0 and B # 0 the round trip returns sigma at every
\* index where sigma >= 0; at an index where sigma < 0 it returns sigma only
\* for B = 1 or -1, returns -sigma for an even B, and not-a-number otherwise.
C7_RoundTripNonNegativeSigma ==
    (MultivariateDone /\ ~IsZero(call.c.a_3) /\ call.c.B # 0) =>
        /\ Len(call.out) = Len(call.sigma)
        /\ \A i \in 1..Len(call.out) :
              IF RSign(call.sigma[i]) >= 0 \/ call.c.B \in {1, -1}
              THEN call.out[i] = call.sigma[i]
              ELSE IF call.c.B % 2 = 0
                   THEN call.out[i] = RNeg(call.sigma[i])
                   ELSE IsNaN(call.out[i])

\* C7 witness: the round trip has run on a positive fractional stress with
\* a cubic exponent, a negative a3 and non-zero auxiliary logs.
C7_Witness ==
    /\ MultivariateDone
    /\ Len(call.sigma) = 2
    /\ call.sigma[1] = <<1, 2>>
    /\ call.phi[1] = <<1, 4>>
    /\ call.c.B = 3
    /\ call.c.a_3 = R(-2)
    /\ call.out[1] = call.sigma[1]

BowersDone == call.fn = "bowers" /\ call.stage = "done"

\* C8: bowers selects the branch by index: below transition_index the
\* pressure is obp minus the loading effective stress of v[i], at and after
\* it obp minus the unloading effective stress of v[i]; so with
\* transition_index = len(v) the output is the virgin-curve pressure at every
\* sample whatever u and v_max are (the virgin curve takes the effective
\* stress obp - p back to v wherever v >= v0); v and obp are left unmodified.
C8_BowersBranchByIndex ==
    BowersDone =>
        /\ Len(call.out) = Len(call.v)
        /\ \A i \in 1..Len(call.v) :
              call.out[i] =
                  IF i - 1 < call.fe_idx
                  THEN RSub(call.obp[i], VesOf(call.v[i], call.a, call.b))
                  ELSE RSub(call.obp[i],
                            VesUnloadOf(call.v[i], call.u, call.a, call.b,
                                        call.vmax))
        /\ call.fe_idx >= Len(call.v) =>
              \A i \in 1..Len(call.v) :
                  /\ call.out[i] =
                         RSub(call.obp[i], VesOf(call.v[i], call.a, call.b))
                  /\ ~RLess(call.v[i], R(V0)) =>
                         virgin_curve(RSub(call.obp[i], call.out[i]),
                                      call.a, call.b) = call.v[i]
        /\ call.v_after = call.v
        /\ call.obp_after = call.obp

\* C8 witness: bowers has run on two samples with the transition at the
\* second, where the unloading stress differs from the loading stress.
C8_Witness ==
    /\ BowersDone
    /\ Len(call.v) = 2
    /\ call.fe_idx = 1
    /\ call.u = 2
    /\ IsFinite(call.out[1]) /\ IsFinite(call.out[2])
    /\ call.out[2] # RSub(call.obp[2], VesOf(call.v[2], call.a, call.b))
    /\ call.out[1] = RSub(call.obp[1], VesOf(call.v[1], call.a, call.b))

-----------------------------------------------------------------------------
(* Properties of the Well. *)

Loaded(df) == df # None

\* The table holds a log of this name (a column 'name(...)' or 'name').
HasLog(df, name) ==
    Loaded(df) /\ \E i \in 1..Len(df.cols) : ColName(df.cols[i]) = name

\* The stored column get_log(name) reads.
Stored(df, name) == Column(df, Col(name, unit_dict(df)[name]))

\* The leftmost insertion index (0-based) of key in the sorted array a.
InsertionIndex(a, key) ==
    Cardinality({j \in 1..Len(a) : CellLess(a[j], Num(key))})

PressureOps == {"_get_pressure"} \cup DOMAIN Wrappers

\* The (depth, coef) pairs of a parameter set deeper than hydrodynamic, in
\* input order.
DeepPairs(set, hydrodynamic) ==
    SelectSeq(Zip(set["depth"], set["coef"]), LAMBDA p : p[1] > hydrodynamic)

\* C2 as stated: _get_pressure(key, hydrodynamic) on a loaded Well returns a
\* Log with exactly one entry per (depth, coef) pair of params[key] with
\* depth > hydrodynamic, in input order, none for the other pairs, depth and
\* data of equal length; each entry's value, also for a depth greater than
\* every overburden depth, is hydrostatic[idx] * coef rounded to 3 decimals
\* with idx the leftmost insertion index of depth in the overburden depths.
C2_PressureEntryPerDeepPair ==
    ( /\ ret.op = "_get_pressure"
      /\ ret.args.ref = ""
      /\ HasLog(ret.before, OBP) /\ HasCol(ret.before, DepthCol)
      /\ ret.args.key \in DOMAIN params
      /\ {"depth", "coef"} \subseteq DOMAIN params[ret.args.key] ) =>
        LET pairs == DeepPairs(params[ret.args.key], ret.args.hydrodynamic)
            depth == Column(ret.before, DepthCol)
            hydro == hydrostatic_pressure(depth, kelly_bushing, water_depth)
        IN  /\ ret.res.exc = ""
            /\ Len(ret.res.val.depth) = Len(pairs)
            /\ Len(ret.res.val.data) = Len(pairs)
            /\ \A i \in 1..Len(pairs) :
                  /\ ret.res.val.depth[i] = Num(pairs[i][1])
                  /\ ret.res.val.data[i] =
                        RoundCell(TimesCoef(
                            hydro[InsertionIndex(depth, pairs[i][1]) + 1],
                            pairs[i][2]))

\* C3 as stated: on a loaded Well with an Overburden_Pressure log, when the
\* parameters hold no set for the key, or a set without 'depth' or without
\* 'coef', _get_pressure and each of its wrappers reports it and returns an
\* empty Log; no exception escapes and the table is unchanged.
C3_MissingParameterSetGivesEmptyLog ==
    ( /\ ret.op \in PressureOps
      /\ HasLog(ret.before, OBP) /\ HasCol(ret.before, DepthCol)
      /\ \/ ret.args.key \notin DOMAIN params
         \/ {"depth", "coef"} \ DOMAIN params[ret.args.key] # {} ) =>
        /\ ret.res.exc = ""
        /\ ret.res.val = EmptyLog
        /\ ret.res.out = "Cannot find"
        /\ data_frame = ret.before

\* The rows of a table whose depth cell is d.
RowsAt(df, d) == {i \in 1..Len(df.rows) : Column(df, DepthCol)[i] = d}

\* C4 as stated: add_log([L]) is an outer join on exact depth value, for
\* every Log L (here: every L that is not itself named 'Depth(m)'), a Log
\* whose column name already exists included: the depth set becomes
\* D union L.depth with each depth in exactly one row; the new column holds
\* L.data[i] in the row of depth L.depth[i] and not-a-number elsewhere; every
\* other pre-existing column keeps its value in the rows of D and holds
\* not-a-number in the rows added from L.
C4_AddLogOuterJoinOnDepth ==
    ( /\ ret.op = "add_log"
      /\ Loaded(ret.before) /\ HasCol(ret.before, DepthCol)
      /\ Col(Replace(ret.args.log.descr), ret.args.log.units) # DepthCol ) =>
        LET L   == ret.args.log
            c   == Col(Replace(L.descr), L.units)
            old == ret.before
            D   == Range(Column(old, DepthCol))
            LD  == Range(L.depth)
        IN  /\ ret.res.exc = ""
            /\ HasCol(data_frame, DepthCol) /\ HasCol(data_frame, c)
            /\ Range(Column(data_frame, DepthCol)) = D \cup LD
            /\ \A d \in D \cup LD : Cardinality(RowsAt(data_frame, d)) = 1
            /\ \A i \in 1..Len(data_frame.rows) :
                  LET d == Column(data_frame, DepthCol)[i]
                  IN  /\ Column(data_frame, c)[i] =
                            IF d \in LD THEN L.data[IndexOf(L.depth, d)] ELSE NaN
                      /\ \A k \in 1..Len(old.cols) :
                            old.cols[k] \notin {DepthCol, c} =>
                               Column(data_frame, old.cols[k])[i] =
                                  IF d \in D
                                  THEN old.rows[IndexOf(Column(old, DepthCol), d)][k]
                                  ELSE NaN

\* C5 as stated: get_log(name, ref='sea') returns a Log whose data has the
\* stored column's length N and, with shift = floor(kelly_bushing / 0.1),
\* holds column[i + shift] at every i with i + shift < N and not-a-number at
\* every other i, for every kelly_bushing >= 0, also below 0.1 (shift 0: the
\* stored column itself) and for shift >= N; the table is not modified.
C5_SeaReferenceShiftsByKellyBushing ==
    ( /\ ret.op = "get_log"
      /\ ret.args.ref = "sea"
      /\ get_log(ret.before, ret.args.name, "", kelly_bushing).exc = "" ) =>
        LET column == Stored(ret.before, ret.args.name)
            N      == Len(column)
            shift  == kelly_bushing \div 10
        IN  /\ ret.res.exc = ""
            /\ Len(ret.res.val.data) = N
            /\ \A i \in 1..N :
                  ret.res.val.data[i] =
                      IF i + shift <= N THEN column[i + shift] ELSE NaN
            /\ data_frame = ret.before

DerivedOps == {"hydrostatic", "lithostatic", "normal_velocity"}

\* C6 as stated: on every Well without an Overburden_Pressure log, loaded
\* without that column or not loaded at all, reading hydrostatic,
\* lithostatic or normal_velocity reports the absence and yields None
\* without raising; an array is yielded only when the log exists.
C6_DerivedPropertyWithoutOverburden ==
    ret.op \in DerivedOps =>
        /\ ~HasLog(ret.before, OBP) =>
              /\ ret.res.exc = ""
              /\ ret.res.none
              /\ ret.res.out = NoLogMsg
        /\ (ret.res.exc = "" /\ ~ret.res.none) => HasLog(ret.before, OBP)

\* C9: the load state is monotone: no call of get_log, add_log, drop_log,
\* save_well, a derived property, _get_pressure, a wrapper or eaton makes a
\* loaded Well unloaded or an unloaded Well loaded.
C9_LoadStateNeverChanges ==
    [][Loaded(data_frame) <=> Loaded(data_frame')]_vars

\* C9 witness: add_log has been called on a Well that construction left
\* unloaded, and the Well is still unloaded.
C9_Witness ==
    /\ ret.op = "add_log"
    /\ ~Loaded(ret.before)
    /\ ~Loaded(data_frame)

\* C10 as stated: on a loaded Well whose table contains 'Depth(m)', after
\* add_log or drop_log with any log name, 'Depth' included, the table still
\* contains 'Depth(m)'; drop_log removes only the named log's column when
\* the log is present, and otherwise reports 'no log named ...' and leaves
\* the table unchanged.
C10_DepthAxisPreserved ==
    ( /\ ret.op \in {"add_log", "drop_log"}
      /\ Loaded(ret.before) /\ HasCol(ret.before, DepthCol) ) =>
        /\ HasCol(data_frame, DepthCol)
        /\ ret.op = "drop_log" =>
              /\ ret.res.exc = ""
              /\ IF HasLog(ret.before, ret.args.name)
                 THEN \E k \in 1..Len(ret.before.cols) :
                         /\ ColName(ret.before.cols[k]) = ret.args.name
                         /\ data_frame = DelColumn(ret.before, ret.before.cols[k])
                 ELSE /\ ret.res.out = "no log named"
                      /\ data_frame = ret.before

=============================================================================
